---- MODULE Spec2Model ----
(***************************************************************************)
(* Model of deploy.py: a command-line front-end that parses its argument   *)
(* list with argparse, selects one of five deploy_* functions by the       *)
(* parsed action, builds that function's gcloud token list, runs it with   *)
(* subprocess.run and raises through main when the return code is not 0.   *)
(*                                                                         *)
(* One behaviour of Spec is one run of the program (one process).          *)
(* SpecRuns chains runs: a new process is started after the previous one   *)
(* has exited, so that two runs can be compared.                           *)
(*                                                                         *)
(* Scope of the argument lists: an optional sub-command token, the options *)
(* the selected sub-parser declares (each given as --flag value or left    *)
(* out), and possibly a token no parser declares.  -h/--help and           *)
(* abbreviated flags are not part of the model.                            *)
(***************************************************************************)
EXTENDS Integers, Sequences, FiniteSets, TLC

VARIABLES
    argv,        \* the process's argument list (sys.argv[1:])
    pc,          \* where the run is: Start, ParseArgs, Dispatched,
                 \*   RunExternalCommand, Success, Failure
    args,        \* the Namespace parse() returned (NoArgs before that)
    selected,    \* the deploy_* function main() called ("" when none)
    launched,    \* the token lists handed to subprocess.run in this run
    returncode,  \* <<rc>> once the child process has exited, else <<>>
    exited,      \* <<status>> once this process has exited, else <<>>
    error,       \* what ended the run in failure ("" when nothing did)
    prev         \* an earlier run of the program, remembered (SpecRuns)

vars == <<argv, pc, args, selected, launched, returncode, exited, error, prev>>

----------------------------------------------------------------------------
(* Bounds *)

\* option values are the strings "v1" .. "v<NumValues>"
NumValues == 2

\* the child process exits with a status in 0 .. MaxReturnCode
MaxReturnCode == 1

Values == { "v" \o ToString(i) : i \in 1..NumValues }

ReturnCodes == 0..MaxReturnCode

\* sub-command tokens that no sub-parser is registered for
UnknownActions == {"bogus", "Train"}

----------------------------------------------------------------------------
(* parse(): the argparse declaration *)

\* Python's None: the value of a dest nothing was stored in
None == "None"

\* the names given to sub_parsers.add_parser
Actions == {"local_train", "train", "local_batch_train", "batch_train", "predict"}

\* add_argument calls of each sub-parser
Declared(action) ==
    CASE action = "local_train"       -> {}
      [] action = "train"             -> {"--bucket", "--path", "--name"}
      [] action = "local_batch_train" -> {"--project", "--dataset_table"}
      [] action = "batch_train"       -> {"--bucket", "--name", "--project", "--dataset_table"}
      [] action = "predict"           -> {"--version", "--model", "--origin", "--package-path"}
      [] OTHER                        -> {}

\* a sub-parser whose --name was declared without required=True
Required_NameOptional(action) ==
    Declared(action) \ {"--name"}

\* the declared flags that carry required=True (all of them)
Required(action) ==
    Declared(action)

\* argparse's dest of a flag: the leading dashes dropped, '-' turned into '_'
Dest(flag) ==
    CASE flag = "--bucket"        -> "bucket"
      [] flag = "--path"          -> "path"
      [] flag = "--name"          -> "name"
      [] flag = "--project"       -> "project"
      [] flag = "--dataset_table" -> "dataset_table"
      [] flag = "--version"       -> "version"
      [] flag = "--model"         -> "model"
      [] flag = "--origin"        -> "origin"
      [] flag = "--package-path"  -> "package_path"

\* the sub-command argparse reads from the argument list (None when absent:
\* add_subparsers is called without required=True)
ActionOf(av) ==
    IF Len(av.positional) = 0 THEN None ELSE av.positional[1]

\* a parser that accepts any sub-command token
invalid_choice_Unchecked(av) ==
    FALSE

\* "argument action: invalid choice": the token is not a registered sub-parser
invalid_choice(av) ==
    /\ Len(av.positional) = 1
    /\ av.positional[1] \notin Actions

\* "the following arguments are required"
missing_required(av) ==
    \E flag \in Required(ActionOf(av)) : flag \notin DOMAIN av.options

\* parse_args exits with a usage error (status 2) instead of returning
parse_error(av) ==
    \/ invalid_choice(av)
    \/ missing_required(av)
    \/ av.unrecognized

\* the Namespace parse_args returns: action, and every dest of the sub-parser
Namespace(av) ==
    LET action == ActionOf(av)
        dests  == { Dest(flag) : flag \in Declared(action) }
        FlagOf(d) == CHOOSE flag \in Declared(action) : Dest(flag) = d
    IN  [ d \in {"action"} \cup dests |->
            IF d = "action" THEN action
            ELSE IF FlagOf(d) \in DOMAIN av.options THEN av.options[FlagOf(d)]
            ELSE None ]

\* no Namespace yet
NoArgs == [ d \in {} |-> None ]

----------------------------------------------------------------------------
(* The argument lists a run can be started with *)

PartialFunctions(S, T) ==
    UNION { [D -> T] : D \in SUBSET S }

Positionals ==
    {<< >>} \cup { <<a>> : a \in Actions \cup UnknownActions }

\* options: the declared flags given, with their values; unrecognized: the
\* list also holds a token that neither the parser nor the sub-parser declares
Argvs ==
    UNION { { [positional |-> p, options |-> o, unrecognized |-> u] :
                o \in PartialFunctions(Declared(ActionOf([positional |-> p])), Values),
                u \in BOOLEAN } :
            p \in Positionals }

----------------------------------------------------------------------------
(* The deploy_* functions: the token list each one builds *)

deploy_local_train(a) ==
    << "powershell.exe",
       "gcloud", "ai-platform", "local", "train",
       "--package-path", "modeling",
       "--module-name", "modeling.trainer.model",
       "--job-dir", "local-training-output",
       "--",
       "--run_location=local",
       "--bucket=None" >>

\* bucket and path interchanged in the trailing module arguments
deploy_trainer_Swapped(a) ==
    << "powershell.exe",
       "gcloud", "ai-platform",
       "jobs", "submit", "training",
       a["name"],
       "--package-path", "modeling",
       "--module-name", "modeling.trainer.model",
       "--staging-bucket", "gs://" \o a["bucket"],
       "--python-version", "3.7",
       "--runtime-version", "1.15",
       "--",
       "--bucket=" \o a["path"],
       "--path=" \o a["bucket"] >>

deploy_trainer(a) ==
    << "powershell.exe",
       "gcloud", "ai-platform",
       "jobs", "submit", "training",
       a["name"],
       "--package-path", "modeling",
       "--module-name", "modeling.trainer.model",
       "--staging-bucket", "gs://" \o a["bucket"],
       "--python-version", "3.7",
       "--runtime-version", "1.15",
       "--",
       "--bucket=" \o a["bucket"],
       "--path=" \o a["path"] >>

deploy_local_batch_train(a) ==
    << "powershell.exe",
       "gcloud", "ai-platform", "local", "train",
       "--package-path", "modeling",
       "--module-name", "modeling.trainer.batch_model",
       "--job-dir", "local-training-output",
       "--",
       "--run_location=local",
       "--bucket=None",
       "--project=" \o a["project"],
       "--dataset_table=" \o a["dataset_table"] >>

\* a builder that reads state outside its argument: the job name gets a
\* suffix when a job was submitted before
deploy_batch_trainer_Stateful(a) ==
    << "powershell.exe",
       "gcloud", "ai-platform",
       "jobs", "submit", "training",
       IF prev # << >> THEN a["name"] \o "-2" ELSE a["name"],
       "--package-path", "modeling",
       "--module-name", "modeling.trainer.batch_model",
       "--staging-bucket", "gs://" \o a["bucket"],
       "--python-version", "3.7",
       "--runtime-version", "1.15",
       "--",
       "--bucket=" \o a["bucket"],
       "--project=" \o a["project"],
       "--dataset_table=" \o a["dataset_table"] >>

deploy_batch_trainer(a) ==
    << "powershell.exe",
       "gcloud", "ai-platform",
       "jobs", "submit", "training",
       a["name"],
       "--package-path", "modeling",
       "--module-name", "modeling.trainer.batch_model",
       "--staging-bucket", "gs://" \o a["bucket"],
       "--python-version", "3.7",
       "--runtime-version", "1.15",
       "--",
       "--bucket=" \o a["bucket"],
       "--project=" \o a["project"],
       "--dataset_table=" \o a["dataset_table"] >>

\* --package-uris fed from the origin option
deploy_predictor_WrongUris(a) ==
    << "powershell.exe",
       "gcloud", "beta", "ai-platform",
       "versions", "create", a["version"],
       "--model", a["model"],
       "--runtime-version", "1.15",
       "--python-version", "3.7",
       "--origin", a["origin"],
       "--package-uris", a["origin"],
       "--prediction-class", "modeling.predictor.predictor.Predictor",
       "--verbosity=debug" >>

deploy_predictor(a) ==
    << "powershell.exe",
       "gcloud", "beta", "ai-platform",
       "versions", "create", a["version"],
       "--model", a["model"],
       "--runtime-version", "1.15",
       "--python-version", "3.7",
       "--origin", a["origin"],
       "--package-uris", a["package_path"],
       "--prediction-class", "modeling.predictor.predictor.Predictor",
       "--verbosity=debug" >>

\* the token list the named function hands to subprocess.run
CommandOf(fn, a) ==
    CASE fn = "deploy_local_train"       -> deploy_local_train(a)
      [] fn = "deploy_trainer"           -> deploy_trainer(a)
      [] fn = "deploy_local_batch_train" -> deploy_local_batch_train(a)
      [] fn = "deploy_batch_trainer"     -> deploy_batch_trainer(a)
      [] fn = "deploy_predictor"         -> deploy_predictor(a)

\* CompletedProcess.check_returncode that lets every status pass
check_returncode_Ignored(rc) ==
    FALSE

\* CompletedProcess.check_returncode raises CalledProcessError
check_returncode_raises(rc) ==
    rc # 0

----------------------------------------------------------------------------
(* main(): the selection chain *)

\* the local_batch_train branch calls the function of the branch above it
main_select_CopiedBranch(action) ==
    IF action = "local_train" THEN "deploy_local_train"
    ELSE IF action = "train" THEN "deploy_trainer"
    ELSE IF action = "local_batch_train" THEN "deploy_local_train"
    ELSE IF action = "batch_train" THEN "deploy_batch_trainer"
    ELSE IF action = "predict" THEN "deploy_predictor"
    ELSE "ValueError"

\* the function main() calls for args.action; "ValueError" is the final raise
main_select(action) ==
    IF action = "local_train" THEN "deploy_local_train"
    ELSE IF action = "train" THEN "deploy_trainer"
    ELSE IF action = "local_batch_train" THEN "deploy_local_batch_train"
    ELSE IF action = "batch_train" THEN "deploy_batch_trainer"
    ELSE IF action = "predict" THEN "deploy_predictor"
    ELSE "ValueError"

----------------------------------------------------------------------------
(* The run *)

Terminal == {"Success", "Failure"}

\* a process that has just been started with argument list av
Started(av) ==
    /\ argv = av
    /\ pc = "Start"
    /\ args = NoArgs
    /\ selected = ""
    /\ launched = << >>
    /\ returncode = << >>
    /\ exited = << >>
    /\ error = ""

Init ==
    /\ \E av \in Argvs : Started(av)
    /\ prev = << >>

\* the module is run as a script: main() is entered and calls parse()
Start ==
    /\ pc = "Start"
    /\ pc' = "ParseArgs"
    /\ UNCHANGED <<argv, args, selected, launched, returncode, exited, error, prev>>

\* parse(): parse_args either returns the Namespace or writes the usage
\* message and exits the process with status 2
Parse ==
    /\ pc = "ParseArgs"
    /\ IF parse_error(argv)
         THEN /\ pc' = "Failure"
              /\ error' = "usage"
              /\ exited' = <<2>>
              /\ args' = args
         ELSE /\ pc' = "Dispatched"
              /\ args' = Namespace(argv)
              /\ UNCHANGED <<error, exited>>
    /\ UNCHANGED <<argv, selected, launched, returncode, prev>>

\* main()'s if-chain: the selected function builds its command and hands it
\* to subprocess.run; with no branch taken, ValueError ends the process
Dispatch ==
    /\ pc = "Dispatched"
    /\ LET fn == main_select(args["action"])
       IN  IF fn = "ValueError"
             THEN /\ pc' = "Failure"
                  /\ error' = "ValueError"
                  /\ exited' = <<1>>
                  /\ UNCHANGED <<selected, launched>>
             ELSE /\ pc' = "RunExternalCommand"
                  /\ selected' = fn
                  /\ launched' = Append(launched, CommandOf(fn, args))
                  /\ UNCHANGED <<error, exited>>
    /\ UNCHANGED <<argv, args, returncode, prev>>

\* the child process exits with status rc: subprocess.run returns and
\* check_returncode either raises (uncaught: exit status 1) or returns None,
\* which main returns (exit status 0)
RunReturns(rc) ==
    /\ pc = "RunExternalCommand"
    /\ returncode' = <<rc>>
    /\ IF check_returncode_raises(rc)
         THEN /\ pc' = "Failure"
              /\ error' = "CalledProcessError"
              /\ exited' = <<1>>
         ELSE /\ pc' = "Success"
              /\ exited' = <<0>>
              /\ error' = error
    /\ UNCHANGED <<argv, args, selected, launched, prev>>

Next ==
    \/ Start
    \/ Parse
    \/ Dispatch
    \/ \E rc \in ReturnCodes : RunReturns(rc)

Spec == Init /\ [][Next]_vars

\* what is remembered of a run that launched a command
Record ==
    [args |-> args, command |-> launched[1]]

\* the process is gone: nothing of it is carried over to a later run (prev is
\* the observer's note of one earlier run, kept or replaced by this one)
ProcessEnds ==
    /\ pc \in Terminal
    /\ pc' = "Exited"
    /\ argv' = [positional |-> << >>, options |-> << >>, unrecognized |-> FALSE]
    /\ args' = NoArgs
    /\ selected' = ""
    /\ launched' = << >>
    /\ returncode' = << >>
    /\ exited' = << >>
    /\ error' = ""
    /\ \/ prev' = prev
       \/ /\ launched # << >>
          /\ prev' = <<Record>>

\* the program is started again, as a new process, with argument list av
NewRun(av) ==
    /\ pc = "Exited"
    /\ argv' = av
    /\ pc' = "Start"
    /\ UNCHANGED <<args, selected, launched, returncode, exited, error, prev>>

NextRuns ==
    \/ Next
    \/ ProcessEnds
    \/ \E av \in Argvs : NewRun(av)

SpecRuns == Init /\ [][NextRuns]_vars

----------------------------------------------------------------------------
(* The claims.  What the specification says of the program is written out  *)
(* here on its own terms (its list of actions, its table of required       *)
(* options, its templates), not through the definitions above.             *)

\* the closed set of actions
ClaimedActions ==
    {"local_train", "train", "local_batch_train", "batch_train", "predict"}

\* the required options of each action
ClaimedRequired(action) ==
    CASE action = "train"             -> {"--bucket", "--path", "--name"}
      [] action = "local_batch_train" -> {"--project", "--dataset_table"}
      [] action = "batch_train"       -> {"--bucket", "--name", "--project", "--dataset_table"}
      [] action = "predict"           -> {"--version", "--model", "--origin", "--package-path"}
      [] action = "local_train"       -> {}

\* the run was started with a known action and leaves out a required option
OmitsRequired ==
    /\ Len(argv.positional) = 1
    /\ argv.positional[1] \in ClaimedActions
    /\ \E flag \in ClaimedRequired(argv.positional[1]) : flag \notin DOMAIN argv.options

\* the run was started with a known action and exactly its required options
CompleteArguments ==
    /\ Len(argv.positional) = 1
    /\ argv.positional[1] \in ClaimedActions
    /\ DOMAIN argv.options = ClaimedRequired(argv.positional[1])
    /\ ~argv.unrecognized

\* the run ended as a usage error of the parser, before anything was selected,
\* built or launched
UsageFailure ==
    /\ pc = "Failure"
    /\ error = "usage"
    /\ exited = <<2>>
    /\ args = NoArgs
    /\ selected = ""
    /\ launched = << >>

\* parse() has not been left yet: nothing selected, built or launched
BeforeParseReturns ==
    /\ pc \in {"Start", "ParseArgs"}
    /\ args = NoArgs
    /\ selected = ""
    /\ launched = << >>
    /\ exited = << >>

\* C1: a run whose arguments name one of train, local_batch_train, batch_train,
\* predict and omit one of its required options is, in every state, either
\* still before the end of parsing or ended in a usage failure with a non-zero
\* exit status; no command is built and no external process is launched in it.
C1_OmittedOptionFailsParse ==
    OmitsRequired => (BeforeParseReturns \/ UsageFailure)

\* C1 witness: predict given without --origin alone has ended in the usage error
C1_Witness ==
    /\ argv.positional = <<"predict">>
    /\ DOMAIN argv.options = {"--version", "--model", "--package-path"}
    /\ ~argv.unrecognized
    /\ UsageFailure

\* C2: with no sub-command in the argument list the parser itself ends the
\* process with a usage error, dispatch is never entered; whenever parse() has
\* returned the action is one of the five, and the unknown-action branch
\* (ValueError) is never taken.
C2_MissingActionFailsParse ==
    /\ (Len(argv.positional) = 0) => (BeforeParseReturns \/ UsageFailure)
    /\ (args # NoArgs) => (args["action"] \in ClaimedActions)
    /\ error # "ValueError"

\* C3: a sub-command token outside the five actions makes parsing fail with a
\* usage error and a non-zero exit status; no function is selected and no
\* external process is launched.
C3_UnknownActionFailsParse ==
    (Len(argv.positional) = 1 /\ argv.positional[1] \notin ClaimedActions)
        => (BeforeParseReturns \/ UsageFailure)

\* C3 witness: the run started as "deploy bogus" has ended in the usage error
C3_Witness ==
    /\ argv.positional = <<"bogus">>
    /\ ~argv.unrecognized
    /\ UsageFailure

\* C4: with a complete set of required options, a finished run is a Success
\* (nothing raised, exit status 0) exactly when the external command's exit
\* status is 0; any other status ends it through CalledProcessError with a
\* non-zero exit status of the program.
C4_SuccessIffReturncodeZero ==
    (CompleteArguments /\ pc \in Terminal) =>
        /\ Len(returncode) = 1
        /\ Len(exited) = 1
        /\ (pc = "Success") <=> (returncode[1] = 0)
        /\ (exited[1] = 0) <=> (returncode[1] = 0)
        /\ (returncode[1] = 0) => (error = "")
        /\ (returncode[1] # 0) => (pc = "Failure" /\ error = "CalledProcessError")

\* C4 witness: a complete train run whose external command exited with 1
C4_Witness ==
    /\ CompleteArguments
    /\ argv.positional = <<"train">>
    /\ pc = "Failure"
    /\ returncode = <<1>>
    /\ error = "CalledProcessError"

\* C5: at most one external command is launched in a run, and exactly one in
\* every finished run whose arguments parsed (parse() returned).
C5_ExactlyOneLaunch ==
    /\ Len(launched) <= 1
    /\ (pc \in Terminal /\ args # NoArgs) => (Len(launched) = 1)

\* the function the specification assigns to each action
ClaimedFunction(action) ==
    CASE action = "local_train"       -> "deploy_local_train"
      [] action = "train"             -> "deploy_trainer"
      [] action = "local_batch_train" -> "deploy_local_batch_train"
      [] action = "batch_train"       -> "deploy_batch_trainer"
      [] action = "predict"           -> "deploy_predictor"

\* C6: once dispatch has acted on one of the five actions, exactly the function
\* of that action has been selected, and the command launched is the one that
\* function builds from the parsed arguments; no function is ever selected for
\* anything else.
C6_DispatchSelectsOwnFunction ==
    /\ (selected # "") =>
          /\ args # NoArgs
          /\ args["action"] \in ClaimedActions
          /\ selected = ClaimedFunction(args["action"])
          /\ launched = << CommandOf(ClaimedFunction(args["action"]), args) >>
    /\ (launched # << >>) => (selected # "")
    /\ (args # NoArgs /\ args["action"] \in ClaimedActions /\ pc # "Dispatched")
          => (selected # "")

\* C6 witness: local_batch_train has been dispatched to deploy_local_batch_train
C6_Witness ==
    /\ pc = "RunExternalCommand"
    /\ args["action"] = "local_batch_train"
    /\ selected = "deploy_local_batch_train"
    /\ Len(launched) = 1

\* C7: for train with --bucket B, --path P, --name N the launched token
\* sequence is exactly the 20 tokens of the template, with N as the 7th token,
\* gs://B after --staging-bucket, and --bucket=B, --path=P after "--".
C7_TrainTokens ==
    (launched # << >> /\ argv.positional = <<"train">>) =>
        launched =
          << << "powershell.exe", "gcloud", "ai-platform", "jobs", "submit",
                "training", argv.options["--name"],
                "--package-path", "modeling",
                "--module-name", "modeling.trainer.model",
                "--staging-bucket", "gs://" \o argv.options["--bucket"],
                "--python-version", "3.7",
                "--runtime-version", "1.15",
                "--",
                "--bucket=" \o argv.options["--bucket"],
                "--path=" \o argv.options["--path"] >> >>

\* C7 witness: train launched with bucket, path and name not all the same
C7_Witness ==
    /\ argv.positional = <<"train">>
    /\ Len(launched) = 1
    /\ Len(launched[1]) = 20
    /\ argv.options["--bucket"] # argv.options["--path"]
    /\ argv.options["--name"] # argv.options["--bucket"]
    /\ launched[1][7] = argv.options["--name"]

ClaimedEdges ==
    { <<"Start", "ParseArgs">>,
      <<"ParseArgs", "Dispatched">>,
      <<"ParseArgs", "Failure">>,
      <<"Dispatched", "RunExternalCommand">>,
      <<"RunExternalCommand", "Success">>,
      <<"RunExternalCommand", "Failure">> }

\* C9: every step of a run is a step of the path Start -> ParseArgs ->
\* Dispatched -> RunExternalCommand -> Success | Failure, the only shortcut
\* being ParseArgs -> Failure, taken by a parse failure; nothing leaves
\* Success or Failure.
C9_LinearPath ==
    [][ /\ <<pc, pc'>> \in ClaimedEdges
        /\ (pc = "ParseArgs" /\ pc' = "Failure") => (error' = "usage") ]_vars

\* C10: for predict with --version V, --model M, --origin O, --package-path K
\* the launched token sequence is exactly the 20 tokens of the template: V
\* after create, M after --model, O after --origin, K after --package-uris.
C10_PredictTokens ==
    (launched # << >> /\ argv.positional = <<"predict">>) =>
        launched =
          << << "powershell.exe", "gcloud", "beta", "ai-platform",
                "versions", "create", argv.options["--version"],
                "--model", argv.options["--model"],
                "--runtime-version", "1.15",
                "--python-version", "3.7",
                "--origin", argv.options["--origin"],
                "--package-uris", argv.options["--package-path"],
                "--prediction-class", "modeling.predictor.predictor.Predictor",
                "--verbosity=debug" >> >>

\* C10 witness: predict launched with origin and package path different, and
\* version and model different
C10_Witness ==
    /\ argv.positional = <<"predict">>
    /\ Len(launched) = 1
    /\ Len(launched[1]) = 20
    /\ argv.options["--origin"] # argv.options["--package-path"]
    /\ argv.options["--version"] # argv.options["--model"]
    /\ launched[1][17] = argv.options["--package-path"]

====
